---------------------------- MODULE Spec2Model ----------------------------
(***************************************************************************)
(* Order placement, cancellation and administrative status update of the   *)
(* jewelry backend (src/src/controllers/orders.js), over the product,      *)
(* coupon, cart and order collections.                                     *)
(*                                                                         *)
(* Every handler is an async function: it runs alone between two awaits    *)
(* and may be interleaved with other requests at each await.  One action   *)
(* below is one such slice of a handler.  A request runs in a slot of      *)
(* Procs; proc[p] holds the handler's local variables and its position.    *)
(*                                                                         *)
(* Money is counted in 1/10000 of a dollar, so that a whole-dollar price,  *)
(* a whole percentage and the 8% tax are all exact integers: the source    *)
(* computes with JavaScript numbers and never rounds.                      *)
(***************************************************************************)
EXTENDS Integers, Sequences, FiniteSets, TLC

\* ------------------------------------------------------------------ bounds

MaxOrders == 1      \* orders ever persisted, all handlers interleaved
RaceOrders == 2     \* orders ever persisted, createOrder racing createOrder
MaxLines  == 2      \* line items of one request
MaxQty    == 1      \* quantity of one line item
SeqQty    == 2      \* quantity of one line item, requests one at a time
MaxTick   == 2      \* clock ticks (milliseconds) the racing requests span
MaxRandom == 1      \* random suffixes 0..MaxRandom of an order number
InitStock == 1      \* units of the tracked product in stock at the start
MaxUpdates == 1     \* administrative status updates
MaxFaults == 1      \* calls that throw (database, gateway, collaborators)

Procs == {"r1", "r2"}
Users == {"u1", "u2"}
None  == "none"

Money(dollars) == dollars * 10000

\* ----------------------------------------------------------------- catalog

\* "p1" tracks its quantity and is in stock, "p2" does not track it, "p3"
\* tracks it and is out of stock, "p4" is deactivated; "px" is an identifier
\* of no product.
ProductIds == {"p1", "p2", "p3", "p4"}
RequestedIds == ProductIds \cup {"px"}

InitProducts ==
  [id \in ProductIds |->
     [price         |-> IF id = "p1" THEN Money(50) ELSE Money(30),
      quantity      |-> IF id = "p1" THEN InitStock ELSE 0,
      trackQuantity |-> id # "p2",
      isActive      |-> id # "p4",
      soldCount     |-> 0]]

\* An optional number (a cap, a limit) is << >> when absent and <<n>> when set.
\* Coupons: "SAVE10" is the live coupon, "OLD" is deactivated, "NOPE" is a
\* code of no coupon.
CouponCodes == {"SAVE10", "OLD"}
RequestedCodes == {None, "SAVE10", "OLD", "NOPE"}
Times == 1..3

InitCoupons ==
  [code \in CouponCodes |->
     [type                  |-> "percentage",
      value                 |-> 10,
      minimumOrderAmount    |-> IF code = "SAVE10" THEN Money(50) ELSE 0,
      maximumDiscountAmount |-> << >>,
      usageLimit            |-> << >>,
      usageCount            |-> 0,
      userUsageLimit        |-> 1,
      usedBy                |-> << >>,
      startDate             |-> 1,
      endDate               |-> 2,
      isActive              |-> code = "SAVE10"]]

\* ------------------------------------------------------------------ orders

Statuses == {"pending", "paid", "processing", "shipped", "delivered",
             "cancelled", "refunded"}
RequestedStatuses == Statuses \cup {"bogus"}

\* The defaults of a new Order document (the Order model is not among the
\* sources; section 4.2 of the specification: persisted in `pending`).
OrderDefaults == [status |-> "pending", paymentStatus |-> "pending"]

\* The line items a request may carry.
Lines == [productId : RequestedIds, quantity : 1..MaxQty]

Min(a, b) == IF a < b THEN a ELSE b
Max(a, b) == IF a > b THEN a ELSE b

\* ----------------------------------------------------------------- pricing

\* A variant of isValid that does not look at the end of the window.
isValid_NoEndDate(coupon, now) ==
  /\ coupon.isActive
  /\ now >= coupon.startDate
  /\ (coupon.usageLimit = << >> \/ coupon.usageCount < coupon.usageLimit[1])

\* couponSchema.methods.isValid
isValid(coupon, now) ==
  /\ coupon.isActive
  /\ now >= coupon.startDate
  /\ now <= coupon.endDate
  /\ (coupon.usageLimit = << >> \/ coupon.usageCount < coupon.usageLimit[1])

\* couponSchema.methods.canUserUse
canUserUse(coupon, userId) ==
  Cardinality({k \in 1..Len(coupon.usedBy) : coupon.usedBy[k].user = userId})
    < coupon.userUsageLimit

\* A variant of the discount that takes a fixed coupon's value as it is.
CouponDiscount_FixedUnclamped(coupon, subtotal) ==
  IF coupon.type = "percentage"
  THEN LET d == (subtotal * coupon.value) \div 100
       IN  IF coupon.maximumDiscountAmount # << >> /\ coupon.maximumDiscountAmount[1] # 0
           THEN Min(d, coupon.maximumDiscountAmount[1])
           ELSE d
  ELSE IF coupon.type = "fixed"
  THEN coupon.value
  ELSE 0

\* createOrder, "Calculate discount".  maximumDiscountAmount is tested for
\* truthiness: an absent cap and a cap of 0 both leave the discount uncapped.
CouponDiscount(coupon, subtotal) ==
  IF coupon.type = "percentage"
  THEN LET d == (subtotal * coupon.value) \div 100
       IN  IF coupon.maximumDiscountAmount # << >> /\ coupon.maximumDiscountAmount[1] # 0
           THEN Min(d, coupon.maximumDiscountAmount[1])
           ELSE d
  ELSE IF coupon.type = "fixed"
  THEN Min(coupon.value, subtotal)
  ELSE 0

\* createOrder, "Default shipping calculation" (also the fallback when the
\* shipping service throws).
DefaultShipping(subtotal, discount) ==
  IF subtotal - discount >= Money(100) THEN 0 ELSE Money(10)

\* createOrder, "Calculate shipping".  quote.kind is "none" when the request
\* names no shipping method, "throw" when the shipping service throws, and
\* "cost" when the service returns quote.cost.
ShippingCost(quote, subtotal, discount) ==
  IF quote.kind = "cost"
  THEN quote.cost
  ELSE DefaultShipping(subtotal, discount)

\* createOrder, "Calculate tax".
Tax(subtotal, discount) == Max(0, ((subtotal - discount) * 8) \div 100)

\* createOrder, "Calculate total".
Total(subtotal, discount, shippingCost, tax) ==
  subtotal - discount + shippingCost + tax

\* cartSchema.methods.calculateTotals, for a cart whose items sum to
\* cart.subtotal: the stored discount is read as a percentage of the
\* subtotal when the cart names a coupon.  The catalog's prices are whole
\* dollars, so subtotal * (discount / 100) is taken as the subtotal's dollars
\* times the discount, over 100, which keeps the product within 32 bits.
calculateTotals(cart) ==
  LET discountAmount     == IF cart.couponCode # None
                            THEN ((cart.subtotal \div Money(1)) * cart.discount) \div 100
                            ELSE 0
      discountedSubtotal == cart.subtotal - discountAmount
      tax                == (discountedSubtotal * 8) \div 100
      shipping           == IF discountedSubtotal >= Money(100) THEN 0 ELSE Money(10)
  IN  [cart EXCEPT !.tax = tax, !.shipping = shipping,
                   !.total = discountedSubtotal + tax + shipping]

\* applyCoupon of the cart controller, from "Calculate discount" on, for a
\* coupon that passed its checks: the discount is stored on the cart as an
\* amount, and the totals are recalculated.
applyCoupon(cart, code, coupon) ==
  LET discount ==
        IF coupon.type = "percentage"
        THEN LET d == (cart.subtotal * coupon.value) \div 100
             IN  IF coupon.maximumDiscountAmount # << >> /\ coupon.maximumDiscountAmount[1] # 0
                 THEN Min(d, coupon.maximumDiscountAmount[1])
                 ELSE d
        ELSE IF coupon.type = "fixed"
        THEN Min(coupon.value, cart.subtotal)
        ELSE 0
  IN  calculateTotals([cart EXCEPT !.couponCode = code, !.discount = discount])

NoQuote == [kind |-> "none", cost |-> 0]

\* The requests of the order flow name no shipping method, or name one while
\* the shipping service is down: both price shipping by the default policy.
DefaultQuotes == {NoQuote, [kind |-> "throw", cost |-> 0]}

\* ------------------------------------------------------------------- state

VARIABLES
  products,   \* Product collection: id -> price, inventory, flags, soldCount
  coupons,    \* Coupon collection: code -> rule, usageCount, usedBy
  carts,      \* Cart collection: user -> whether the user has an active cart
  orders,     \* Order collection, in order of insertion; _id = position
  proc,       \* the requests in flight: locals and position of each handler
  updates,    \* how many administrative status updates were made
  faults      \* how many calls have thrown

vars == <<products, coupons, carts, orders, proc, updates, faults>>

\* A slot that runs no request.  The fields are the handlers' locals: the
\* request's user, the loop index i, orderItems, the amounts, the in-memory
\* order document (oid, status, paymentStatus, and `saved`: no unsaved change),
\* the time at which the coupon was validated (now), what the gateway
\* answered (paymentResult, refundResult: None while it has not answered or
\* when it threw), the coupon document read for the usage update
\* (readCount), the calls made to the payment gateway, and the HTTP status of
\* the last response (res).
IdleProc ==
  [op |-> "idle", pc |-> "idle", user |-> None, couponCode |-> None,
   now |-> 0, i |-> 0, orderItems |-> << >>, paymentResult |-> None,
   subtotal |-> 0, discount |-> 0, shippingCost |-> 0, tax |-> 0, total |-> 0,
   oid |-> 0, status |-> None, paymentStatus |-> None, saved |-> TRUE,
   readCount |-> 0, gatewayCalls |-> 0, refundCalls |-> 0,
   refundResult |-> None, res |-> 0]

Init ==
  /\ products = InitProducts
  /\ coupons = InitCoupons
  /\ carts = [u \in Users |-> TRUE]
  /\ orders = << >>
  /\ proc = [p \in Procs |-> IdleProc]
  /\ updates = 0
  /\ faults = 0

\* The handler of slot p moves on with the locals in `changes`.
Goto(p, changes) == proc' = [proc EXCEPT ![p] = changes] /\ UNCHANGED updates

\* The outcomes of a call that may throw: TRUE (it returns) and, while the
\* bound on thrown calls allows, FALSE (it throws).
Outcomes == IF faults < MaxFaults THEN BOOLEAN ELSE {TRUE}

\* What a call to the payment gateway does: it reports success, reports
\* failure, or throws.
GatewayOutcomes ==
  {"success", "failure"} \cup (IF faults < MaxFaults THEN {"throw"} ELSE {})

\* A call returned (ok) or threw.
Called(ok) == faults' = IF ok THEN faults ELSE faults + 1


\* The handler of slot p sends its response and returns: the slot is free
\* again and keeps, until the next request arrives, which handler answered
\* and the HTTP status it sent.
Respond(p, code) == Goto(p, [IdleProc EXCEPT !.op = proc[p].op, !.res = code])

\* Requests that have persisted no order yet but still may.
Pending == {q \in Procs : proc[q].op = "create" /\ proc[q].oid = 0 /\ proc[q].pc # "idle"}

\* ------------------------------------------------------------- createOrder
\* The request body is fixed when the request arrives; the model draws each
\* field of it where the handler first reads it.

\* POST /api/orders arrives: the route's validators pass (a non-empty item
\* list, an address, a payment method) and the body is destructured.
CreateOrderOf(p, users, cap) ==
  /\ proc[p].pc = "idle"
  /\ Len(orders) + Cardinality(Pending) < cap
  /\ \E u \in users :
       Goto(p, [IdleProc EXCEPT !.op = "create", !.pc = "item", !.user = u, !.i = 1])
  /\ UNCHANGED <<products, coupons, carts, orders, faults>>

\* A variant of the item loop without the "Insufficient stock" check.
ValidateItemOf_AnyStock(p, lines, maxLines) ==
  LET l == proc[p] IN
  /\ l.op = "create" /\ l.pc = "item"
  /\ \E item \in lines, last \in BOOLEAN :
       /\ l.i = maxLines => last
       /\ IF item.productId \notin DOMAIN products
          THEN Respond(p, 400)
          ELSE LET product == products[item.productId] IN
               IF ~product.isActive
               THEN Respond(p, 400)
               ELSE LET totalPrice == product.price * item.quantity
                    IN  Goto(p, [l EXCEPT
                          !.subtotal = @ + totalPrice,
                          !.orderItems = Append(@, [product |-> item.productId,
                                                    quantity |-> item.quantity,
                                                    price |-> product.price,
                                                    totalPrice |-> totalPrice]),
                          !.i = @ + 1,
                          !.pc = IF last THEN "price" ELSE "item"])
  /\ UNCHANGED <<products, coupons, carts, orders, faults>>

\* One turn of "for (const item of items)": Product.findById, the checks,
\* the price snapshot.  `last` tells whether the item is the list's last.
ValidateItemOf(p, lines, maxLines) ==
  LET l == proc[p] IN
  /\ l.op = "create" /\ l.pc = "item"
  /\ \E item \in lines, last \in BOOLEAN :
       /\ l.i = maxLines => last
       /\ IF item.productId \notin DOMAIN products
          THEN Respond(p, 400)
          ELSE LET product == products[item.productId] IN
               IF ~product.isActive
               THEN Respond(p, 400)
               ELSE IF product.trackQuantity /\ product.quantity < item.quantity
               THEN Respond(p, 400)
               ELSE LET totalPrice == product.price * item.quantity
                    IN  Goto(p, [l EXCEPT
                          !.subtotal = @ + totalPrice,
                          !.orderItems = Append(@, [product |-> item.productId,
                                                    quantity |-> item.quantity,
                                                    price |-> product.price,
                                                    totalPrice |-> totalPrice]),
                          !.i = @ + 1,
                          !.pc = IF last THEN "price" ELSE "item"])
  /\ UNCHANGED <<products, coupons, carts, orders, faults>>

\* The shipping, tax and total of a request whose discount is known.
Priced(l, code, now, quote, discount) ==
  LET shippingCost == ShippingCost(quote, l.subtotal, discount)
      tax          == Tax(l.subtotal, discount)
  IN  [l EXCEPT !.couponCode = code, !.now = now, !.discount = discount,
                !.shippingCost = shippingCost, !.tax = tax,
                !.total = Total(l.subtotal, discount, shippingCost, tax),
                !.pc = "save"]

\* A coupon check failed: 400.  Until the next request arrives the slot
\* keeps, beside the status, the coupon code the request named and the time
\* at which the coupon was checked.
RejectCoupon(p, code, now) ==
  Goto(p, [IdleProc EXCEPT !.op = "create", !.res = 400,
                           !.couponCode = code, !.now = now])

\* "Apply coupon if provided" up to "Calculate total": Coupon.findOne, the
\* coupon checks at the time `now`, the discount, shipping, tax and total.
\* The request names a coupon code of `codes` or none, and its shipping is
\* quoted by one of `quotes`.
PriceOrderWith(p, codes, quotes) ==
  LET l == proc[p] IN
  /\ l.op = "create" /\ l.pc = "price"
  /\ \E code \in codes, quote \in quotes, now \in Times :
       IF code = None
       THEN Goto(p, Priced(l, code, 0, quote, 0))
       ELSE IF code \notin DOMAIN coupons
       THEN RejectCoupon(p, code, 0)
       ELSE LET coupon == coupons[code] IN
            IF ~coupon.isActive
            THEN RejectCoupon(p, code, 0)
            ELSE IF ~isValid(coupon, now)
            THEN RejectCoupon(p, code, now)
            ELSE IF ~canUserUse(coupon, l.user)
            THEN RejectCoupon(p, code, now)
            ELSE IF l.subtotal < coupon.minimumOrderAmount
            THEN RejectCoupon(p, code, now)
            ELSE Goto(p, Priced(l, code, now, quote,
                                CouponDiscount(coupon, l.subtotal)))
  /\ UNCHANGED <<products, coupons, carts, orders, faults>>

PriceOrderOf(p, codes) == PriceOrderWith(p, codes, DefaultQuotes)

\* The three slices above, for the requests of the general workload.
CreateOrder(p) == CreateOrderOf(p, Users, MaxOrders)
ValidateItem(p) == ValidateItemOf(p, Lines, MaxLines)
PriceOrder(p) == PriceOrderOf(p, RequestedCodes)

\* "ORD-${Date.now()}-${Math.floor(Math.random() * 1000)}": the number is
\* the pair of the clock's tick and the random suffix (the string determines
\* both and is determined by both).
OrderNumber(tick, random) == <<tick, random>>

\* Date.now() does not run backward: the ticks a new order number may carry
\* are those from the latest order's tick on.
TicksNow(ticks) ==
  {t \in ticks : orders = << >> \/ t >= orders[Len(orders)].orderNumber[1]}

\* "new Order({...})": the document createOrder builds.
NewOrder(l, orderNumber) ==
  [orderNumber |-> orderNumber,
   customer |-> l.user, items |-> l.orderItems, subtotal |-> l.subtotal,
   shippingCost |-> l.shippingCost, tax |-> l.tax, discount |-> l.discount,
   total |-> l.total, couponCode |-> l.couponCode,
   status |-> OrderDefaults.status,
   paymentStatus |-> OrderDefaults.paymentStatus]

\* "Generate unique order number" and the first "await order.save()": the
\* order is inserted under a number made of a tick of `ticks` and a suffix
\* of `randoms`.
SaveOrderOf(p, ticks, randoms) ==
  LET l == proc[p] IN
  /\ l.op = "create" /\ l.pc = "save"
  /\ \E tick \in TicksNow(ticks), random \in randoms :
       orders' = Append(orders, NewOrder(l, OrderNumber(tick, random)))
  /\ Goto(p, [l EXCEPT !.oid = Len(orders) + 1, !.now = 0,
                       !.status = OrderDefaults.status,
                       !.paymentStatus = OrderDefaults.paymentStatus,
                       !.pc = "pay"])
  /\ UNCHANGED <<products, coupons, carts, faults>>

\* The same for the workloads that persist one order: its number is the one
\* value the tick and suffix at hand give.
SaveOrder(p) == SaveOrderOf(p, {1}, {0})

\* A variant of the payment step that tests the gateway's answer for
\* presence instead of `.success`: a decline runs the success branch.
ProcessPayment_DeclineIgnored(p) ==
  LET l == proc[p]
      called == [l EXCEPT !.gatewayCalls = @ + 1]
      answered(result) == [called EXCEPT !.paymentResult = result]
  IN
  /\ l.op = "create" /\ l.pc = "pay"
  /\ \E outcome \in GatewayOutcomes :
       /\ Called(outcome # "throw")
       /\ IF outcome # "throw"
          THEN Goto(p, [answered(outcome) EXCEPT
                          !.status = "paid", !.paymentStatus = "paid",
                          !.saved = FALSE, !.i = 1, !.pc = "inventory"])
          ELSE Goto(p, [called EXCEPT !.pc = "catch"])
  /\ UNCHANGED <<products, coupons, carts, orders>>

\* "await paymentService.processPayment(...)": the gateway charges, declines
\* or throws.  On success the in-memory order becomes paid; on a decline it
\* becomes cancelled/failed; neither is saved yet.
ProcessPayment(p) ==
  LET l == proc[p]
      called == [l EXCEPT !.gatewayCalls = @ + 1]
      answered(result) == [called EXCEPT !.paymentResult = result]
  IN
  /\ l.op = "create" /\ l.pc = "pay"
  /\ \E outcome \in GatewayOutcomes :
       /\ Called(outcome # "throw")
       /\ IF outcome = "success"
          THEN Goto(p, [answered("success") EXCEPT
                          !.status = "paid", !.paymentStatus = "paid",
                          !.saved = FALSE, !.i = 1, !.pc = "inventory"])
          ELSE IF outcome = "failure"
          THEN Goto(p, [answered("failure") EXCEPT
                          !.status = "cancelled", !.paymentStatus = "failed",
                          !.saved = FALSE, !.pc = "declined"])
          ELSE Goto(p, [called EXCEPT !.pc = "catch"])
  /\ UNCHANGED <<products, coupons, carts, orders>>

\* Product.findByIdAndUpdate(id, {$inc: {...}}): the store adds dq to the
\* quantity and ds to the sold count, whatever their values.
IncProduct(id, dq, ds) ==
  [products EXCEPT ![id].quantity = @ + dq, ![id].soldCount = @ + ds]

\* One turn of "Update product inventory and sales count".  The update may
\* throw, which leaves the store as it is and enters catch (paymentError).
DecrementInventory(p) ==
  LET l    == proc[p]
      item == l.orderItems[l.i]
  IN
  /\ l.op = "create" /\ l.pc = "inventory"
  /\ \E ok \in Outcomes :
       /\ Called(ok)
       /\ IF ok
          THEN /\ products' = IncProduct(item.product, -item.quantity, item.quantity)
               /\ Goto(p, [l EXCEPT !.i = @ + 1,
                             !.pc = IF l.i < Len(l.orderItems) THEN "inventory"
                                    ELSE IF l.couponCode # None THEN "couponFind"
                                    ELSE "cart"])
          ELSE /\ UNCHANGED products
               /\ Goto(p, [l EXCEPT !.pc = "catch"])
  /\ UNCHANGED <<coupons, carts, orders>>

\* "Update coupon usage": Coupon.findOne reads the coupon document.
FindCoupon(p) ==
  LET l == proc[p] IN
  /\ l.op = "create" /\ l.pc = "couponFind"
  /\ \E ok \in Outcomes :
       /\ Called(ok)
       /\ IF ~ok
          THEN Goto(p, [l EXCEPT !.pc = "catch"])
          ELSE IF l.couponCode \notin DOMAIN coupons
          THEN Goto(p, [l EXCEPT !.pc = "cart"])
          ELSE Goto(p, [l EXCEPT !.readCount = coupons[l.couponCode].usageCount,
                                 !.pc = "couponSave"])
  /\ UNCHANGED <<products, coupons, carts, orders>>

\* "coupon.usageCount += 1; coupon.usedBy.push(...); await coupon.save()":
\* the save sets usageCount to the value computed from the document read and
\* pushes the usage record onto the stored array.
SaveCoupon(p) ==
  LET l == proc[p] IN
  /\ l.op = "create" /\ l.pc = "couponSave"
  /\ \E ok \in Outcomes :
       /\ Called(ok)
       /\ IF ok
          THEN /\ coupons' = [coupons EXCEPT
                    ![l.couponCode].usageCount = l.readCount + 1,
                    ![l.couponCode].usedBy = Append(@, [user |-> l.user, order |-> l.oid])]
               /\ Goto(p, [l EXCEPT !.pc = "cart"])
          ELSE /\ UNCHANGED coupons
               /\ Goto(p, [l EXCEPT !.pc = "catch"])
  /\ UNCHANGED <<products, carts, orders>>

\* "Clear user's cart": Cart.findOneAndUpdate({user, isActive: true}, ...).
DeactivateCart(p) ==
  LET l == proc[p] IN
  /\ l.op = "create" /\ l.pc = "cart"
  /\ \E ok \in Outcomes :
       /\ Called(ok)
       /\ IF ok
          THEN /\ carts' = [carts EXCEPT ![l.user] = FALSE]
               /\ Goto(p, [l EXCEPT !.pc = "savePaid"])
          ELSE /\ UNCHANGED carts
               /\ Goto(p, [l EXCEPT !.pc = "catch"])
  /\ UNCHANGED <<products, coupons, orders>>

\* A variant of order.save() that first recomputes the line prices and the
\* amounts that depend on them from the live catalog.
StoreStatus_Repriced(o, status, paymentStatus) ==
  LET old    == orders[o]
      items  == [k \in 1..Len(old.items) |->
                   [old.items[k] EXCEPT
                      !.price = products[old.items[k].product].price,
                      !.totalPrice = products[old.items[k].product].price
                                       * old.items[k].quantity]]
      sum[k \in 0..Len(items)] ==
        IF k = 0 THEN 0 ELSE sum[k - 1] + items[k].totalPrice
  IN  [orders EXCEPT ![o].status = status, ![o].paymentStatus = paymentStatus,
                     ![o].items = items, ![o].subtotal = sum[Len(items)],
                     ![o].total = sum[Len(items)] - old.discount
                                    + old.shippingCost + old.tax]

\* order.save() writes the paths the handler modified: status and
\* paymentStatus (and paymentDetails, which the model leaves out).
StoreStatus(o, status, paymentStatus) ==
  [orders EXCEPT ![o].status = status, ![o].paymentStatus = paymentStatus]

\* The second "await order.save()": the paid order is persisted.
SavePaid(p) ==
  LET l == proc[p] IN
  /\ l.op = "create" /\ l.pc = "savePaid"
  /\ orders' = StoreStatus(l.oid, l.status, l.paymentStatus)
  /\ Goto(p, [l EXCEPT !.saved = TRUE, !.pc = "email"])
  /\ UNCHANGED <<products, coupons, carts, faults>>

\* "Send order confirmation email", in its own try/catch: a failure is
\* logged and the handler goes on.
SendConfirmation(p) ==
  LET l == proc[p] IN
  /\ l.op = "create" /\ l.pc = "email"
  /\ \E ok \in Outcomes :
       /\ Called(ok)
       /\ Goto(p, [l EXCEPT !.pc = "notify"])
  /\ UNCHANGED <<products, coupons, carts, orders>>

\* "Create admin notification": Notification.create, not in a try of its own.
NotifyAdmins(p) ==
  LET l == proc[p] IN
  /\ l.op = "create" /\ l.pc = "notify"
  /\ \E ok \in Outcomes :
       /\ Called(ok)
       /\ Goto(p, [l EXCEPT !.pc = IF ok THEN "analytics" ELSE "catch"])
  /\ UNCHANGED <<products, coupons, carts, orders>>

\* "Track analytics": Analytics.create, then the 201 response.
TrackAnalytics(p) ==
  LET l == proc[p] IN
  /\ l.op = "create" /\ l.pc = "analytics"
  /\ \E ok \in Outcomes :
       /\ Called(ok)
       /\ IF ok THEN Respond(p, 201) ELSE Goto(p, [l EXCEPT !.pc = "catch"])
  /\ UNCHANGED <<products, coupons, carts, orders>>

\* The else branch of "if (paymentResult.success)": the cancelled/failed
\* order is saved and the request answered 400.
SaveDeclined(p) ==
  LET l == proc[p] IN
  /\ l.op = "create" /\ l.pc = "declined"
  /\ orders' = StoreStatus(l.oid, l.status, l.paymentStatus)
  /\ Respond(p, 400)
  /\ UNCHANGED <<products, coupons, carts, faults>>

\* A variant of catch (paymentError) that answers 500 without saving the
\* order.
CatchPaymentError_Unsaved(p) ==
  LET l == proc[p] IN
  /\ l.op = "create" /\ l.pc = "catch"
  /\ Respond(p, 500)
  /\ UNCHANGED <<products, coupons, carts, orders, faults>>

\* "catch (paymentError)": whatever threw inside the payment try block, the
\* order is set to cancelled/failed, saved, and the request answered 500.
CatchPaymentError(p) ==
  LET l == proc[p] IN
  /\ l.op = "create" /\ l.pc = "catch"
  /\ orders' = StoreStatus(l.oid, "cancelled", "failed")
  /\ Respond(p, 500)
  /\ UNCHANGED <<products, coupons, carts, faults>>

\* ------------------------------------------------------------- cancelOrder

\* A variant of the cancellable statuses that lets a shipped order through.
Cancellable_WithShipped == {"pending", "paid", "processing", "shipped"}

Cancellable == {"pending", "paid", "processing"}

\* PATCH /api/orders/:id/cancel by user u for order id o: Order.findOne by id
\* and customer, the status check, "order.status = 'cancelled'".
\* A variant of the lookup that finds the order by its id alone.
CancelOrderBy_AnyCustomer(p, u, o) ==
  /\ proc[p].pc = "idle"
  /\ IF o > Len(orders)
     THEN Goto(p, [IdleProc EXCEPT !.op = "cancel", !.res = 404])
     ELSE IF orders[o].status \notin Cancellable
     THEN Goto(p, [IdleProc EXCEPT !.op = "cancel", !.res = 400])
     ELSE Goto(p, [IdleProc EXCEPT
                     !.op = "cancel", !.user = u, !.oid = o,
                     !.status = "cancelled",
                     !.paymentStatus = orders[o].paymentStatus,
                     !.orderItems = orders[o].items,
                     !.saved = FALSE, !.i = 1, !.pc = "restore"])
  /\ UNCHANGED <<products, coupons, carts, orders, faults>>

CancelOrderBy(p, u, o) ==
  /\ proc[p].pc = "idle"
  /\ IF o > Len(orders) \/ orders[o].customer # u
     THEN Goto(p, [IdleProc EXCEPT !.op = "cancel", !.res = 404])
     ELSE IF orders[o].status \notin Cancellable
     THEN Goto(p, [IdleProc EXCEPT !.op = "cancel", !.res = 400])
     ELSE Goto(p, [IdleProc EXCEPT
                     !.op = "cancel", !.user = u, !.oid = o,
                     !.status = "cancelled",
                     !.paymentStatus = orders[o].paymentStatus,
                     !.orderItems = orders[o].items,
                     !.saved = FALSE, !.i = 1, !.pc = "restore"])
  /\ UNCHANGED <<products, coupons, carts, orders, faults>>

\* A cancellation request of any user for any order id.
CancelOrder(p) == \E u \in Users, o \in 1..MaxOrders : CancelOrderBy(p, u, o)

\* A variant of the restore loop that puts the quantity back but leaves the
\* sold count as it is.
RestoreInventory_QuantityOnly(p) ==
  LET l    == proc[p]
      item == l.orderItems[l.i]
  IN
  /\ l.op = "cancel" /\ l.pc = "restore"
  /\ \E ok \in Outcomes :
       /\ Called(ok)
       /\ IF ok
          THEN /\ products' = IncProduct(item.product, item.quantity, 0)
               /\ Goto(p, [l EXCEPT !.i = @ + 1,
                             !.pc = IF l.i < Len(l.orderItems) THEN "restore"
                                    ELSE IF l.paymentStatus = "paid" THEN "refund"
                                    ELSE "save"])
          ELSE /\ UNCHANGED products
               /\ Respond(p, 500)
  /\ UNCHANGED <<coupons, carts, orders>>

\* One turn of "Restore inventory".  A throw leaves the handler through its
\* outer catch: 500, and the cancellation is never saved.
RestoreInventory(p) ==
  LET l    == proc[p]
      item == l.orderItems[l.i]
  IN
  /\ l.op = "cancel" /\ l.pc = "restore"
  /\ \E ok \in Outcomes :
       /\ Called(ok)
       /\ IF ok
          THEN /\ products' = IncProduct(item.product, item.quantity, -item.quantity)
               /\ Goto(p, [l EXCEPT !.i = @ + 1,
                             !.pc = IF l.i < Len(l.orderItems) THEN "restore"
                                    ELSE IF l.paymentStatus = "paid" THEN "refund"
                                    ELSE "save"])
          ELSE /\ UNCHANGED products
               /\ Respond(p, 500)
  /\ UNCHANGED <<coupons, carts, orders>>

\* A variant of the refund step that marks the payment refunded whatever
\* the gateway answers.
ProcessRefund_AlwaysRefunded(p) ==
  LET l == proc[p] IN
  /\ l.op = "cancel" /\ l.pc = "refund"
  /\ \E outcome \in GatewayOutcomes :
       /\ Called(outcome # "throw")
       /\ Goto(p, [l EXCEPT !.refundCalls = @ + 1,
                            !.refundResult = IF outcome = "throw" THEN None ELSE outcome,
                            !.paymentStatus = "refunded",
                            !.pc = "save"])
  /\ UNCHANGED <<products, coupons, carts, orders>>

\* "Process refund if payment was completed": the gateway refunds, declines
\* or throws; only a success changes the in-memory payment status.
ProcessRefund(p) ==
  LET l == proc[p] IN
  /\ l.op = "cancel" /\ l.pc = "refund"
  /\ \E outcome \in GatewayOutcomes :
       /\ Called(outcome # "throw")
       /\ Goto(p, [l EXCEPT !.refundCalls = @ + 1,
                            !.refundResult = IF outcome = "throw" THEN None ELSE outcome,
                            !.paymentStatus = IF outcome = "success" THEN "refunded" ELSE @,
                            !.pc = "save"])
  /\ UNCHANGED <<products, coupons, carts, orders>>

\* "await order.save()" of cancelOrder: status is written, and paymentStatus
\* only when the refund changed it.
SaveCancelled(p) ==
  LET l == proc[p] IN
  /\ l.op = "cancel" /\ l.pc = "save"
  /\ orders' = StoreStatus(l.oid, l.status,
                           IF l.paymentStatus = "refunded" THEN "refunded"
                           ELSE orders[l.oid].paymentStatus)
  /\ Goto(p, [l EXCEPT !.saved = TRUE, !.pc = "notify"])
  /\ UNCHANGED <<products, coupons, carts, faults>>

\* The cancellation email (failure caught), Notification.create (a throw
\* answers 500), and the 200 response.
NotifyCancelled(p) ==
  LET l == proc[p] IN
  /\ l.op = "cancel" /\ l.pc = "notify"
  /\ \E ok \in Outcomes :
       /\ Called(ok)
       /\ Respond(p, IF ok THEN 200 ELSE 500)
  /\ UNCHANGED <<products, coupons, carts, orders>>

\* ------------------------------------------------------- updateOrderStatus

\* PUT /api/orders/admin/:id/status with body status s for order id o.  The
\* document read is used only for the email; the save writes the new status.
UpdateOrderStatus(o, s) ==
  /\ updates < MaxUpdates
  /\ updates' = updates + 1
  /\ IF s \notin Statuses \/ o > Len(orders)
     THEN UNCHANGED orders
     ELSE orders' = [orders EXCEPT ![o].status = s]
  /\ UNCHANGED <<products, coupons, carts, proc, faults>>

\* --------------------------------------------------------------- behaviour
\* Spec: two request slots run createOrder and cancelOrder interleaved at
\* every await, beside the administrator's status updates; calls may throw.

\* Every slice of the two customer handlers that follows createOrder's
\* validation, for the request in slot p.
Placed(p) ==
  \/ SaveOrder(p)
  \/ ProcessPayment(p)
  \/ DecrementInventory(p)
  \/ FindCoupon(p)
  \/ SaveCoupon(p)
  \/ DeactivateCart(p)
  \/ SavePaid(p)
  \/ SendConfirmation(p)
  \/ NotifyAdmins(p)
  \/ TrackAnalytics(p)
  \/ SaveDeclined(p)
  \/ CatchPaymentError(p)
  \/ CancelOrder(p)
  \/ RestoreInventory(p)
  \/ ProcessRefund(p)
  \/ SaveCancelled(p)
  \/ NotifyCancelled(p)

\* Every slice of the two customer handlers, for the request in slot p.
Handlers(p) ==
  \/ CreateOrder(p)
  \/ ValidateItem(p)
  \/ PriceOrder(p)
  \/ Placed(p)

\* An administrator's status update of any order id to any status.
AdminUpdate == \E o \in 1..MaxOrders, s \in RequestedStatuses : UpdateOrderStatus(o, s)

Next == (\E p \in Procs : Handlers(p)) \/ AdminUpdate

Spec == Init /\ [][Next]_vars

\* SpecRace: two createOrder requests race for the last unit of the tracked
\* product "p1", with or without the coupon; no call throws, nobody cancels,
\* the administrator is away.
RaceLines == {[productId |-> "p1", quantity |-> 1]}
RaceCodes == {None, "SAVE10"}

InitRace ==
  /\ products = InitProducts
  /\ coupons = InitCoupons
  /\ carts = [u \in Users |-> TRUE]
  /\ orders = << >>
  /\ proc = [p \in Procs |-> IdleProc]
  /\ updates = MaxUpdates
  /\ faults = MaxFaults

NextRace ==
  \E p \in Procs :
    \/ CreateOrderOf(p, Users, RaceOrders)
    \/ ValidateItemOf(p, RaceLines, 1)
    \/ PriceOrderOf(p, RaceCodes)
    \/ SaveOrderOf(p, 1..MaxTick, 0..MaxRandom)
    \/ ProcessPayment(p)
    \/ DecrementInventory(p)
    \/ FindCoupon(p)
    \/ SaveCoupon(p)
    \/ DeactivateCart(p)
    \/ SavePaid(p)
    \/ SendConfirmation(p)
    \/ NotifyAdmins(p)
    \/ TrackAnalytics(p)
    \/ SaveDeclined(p)

SpecRace == InitRace /\ [][NextRace]_vars

\* SpecSeq: the requests arrive one after the other (one slot), beside the
\* administrator's status updates; calls may throw.  A line asks for up to
\* SeqQty units.
SeqLines == [productId : RequestedIds, quantity : 1..SeqQty]

NextSeq ==
  \/ CreateOrder("r1")
  \/ ValidateItemOf("r1", SeqLines, MaxLines)
  \/ PriceOrder("r1")
  \/ Placed("r1")
  \/ AdminUpdate

SpecSeq == Init /\ [][NextSeq]_vars

\* SpecPricing: one createOrder request after the other, with no thrown
\* call, against every coupon document of a family that varies the coupon's
\* type, value and cap, its flag and window, and its usage so far; the
\* request may name a shipping method, which the shipping service quotes.
CouponShapes ==
  [type : {"percentage"}, value : {10, 150},
   maximumDiscountAmount : {<< >>, <<0>>, <<Money(2)>>}]
    \cup [type : {"fixed"}, value : {Money(20), Money(80)},
          maximumDiscountAmount : {<< >>}]
    \cup [type : {"free_shipping"}, value : {0}, maximumDiscountAmount : {<< >>}]

\* What the coupon has been used for so far: by nobody, once by "u1", once
\* by "u2".
CouponUsages ==
  {<< >>} \cup {<<[user |-> u, order |-> 0]>> : u \in Users}

PricingCoupons ==
  {[type                  |-> shape.type,
    value                 |-> shape.value,
    minimumOrderAmount    |-> 0,
    maximumDiscountAmount |-> shape.maximumDiscountAmount,
    usageLimit            |-> limit,
    usageCount            |-> Len(usedBy),
    userUsageLimit        |-> 1,
    usedBy                |-> usedBy,
    startDate             |-> startDate,
    endDate               |-> 2,
    isActive              |-> isActive] :
     shape \in CouponShapes, limit \in {<< >>, <<1>>}, usedBy \in CouponUsages,
     startDate \in {1, 2}, isActive \in BOOLEAN}

PricingCodes == {None, "SAVE10"}

PricingQuotes ==
  DefaultQuotes \cup {[kind |-> "cost", cost |-> c] : c \in {0, Money(5)}}

InitPricing ==
  /\ products = InitProducts
  /\ \E coupon \in PricingCoupons : coupons = [InitCoupons EXCEPT !["SAVE10"] = coupon]
  /\ carts = [u \in Users |-> TRUE]
  /\ orders = << >>
  /\ proc = [p \in Procs |-> IdleProc]
  /\ updates = MaxUpdates
  /\ faults = MaxFaults

NextPricing ==
  \/ CreateOrder("r1")
  \/ ValidateItemOf("r1", SeqLines, MaxLines)
  \/ PriceOrderWith("r1", PricingCodes, PricingQuotes)
  \/ SaveOrder("r1")
  \/ ProcessPayment("r1")
  \/ DecrementInventory("r1")
  \/ FindCoupon("r1")
  \/ SaveCoupon("r1")
  \/ DeactivateCart("r1")
  \/ SavePaid("r1")
  \/ SendConfirmation("r1")
  \/ NotifyAdmins("r1")
  \/ TrackAnalytics("r1")
  \/ SaveDeclined("r1")

SpecPricing == InitPricing /\ [][NextPricing]_vars

\* SpecCatalog: SpecSeq beside an administrator who edits the catalog: the
\* price of the product "p1", or of an identifier of no product.
CatalogIds == {"p1", "px"}
CatalogPrices == {Money(50), Money(70)}

\* PUT /api/products/:id with a price in the body: Product.findByIdAndUpdate
\* sets the live price; an unknown id is answered 404.
UpdateProduct(id, price) ==
  /\ products' = IF id \in DOMAIN products
                 THEN [products EXCEPT ![id].price = price]
                 ELSE products
  /\ UNCHANGED <<coupons, carts, orders, proc, updates, faults>>

CatalogUpdate == \E id \in CatalogIds, price \in CatalogPrices : UpdateProduct(id, price)

NextCatalog == NextSeq \/ CatalogUpdate

SpecCatalog == Init /\ [][NextCatalog]_vars

\* SpecLimit: the race of SpecRace for a coupon whose usageLimit is set, to
\* one use fewer than there are racing requests.
InitLimit ==
  /\ products = InitProducts
  /\ coupons = [InitCoupons EXCEPT !["SAVE10"].usageLimit = <<RaceOrders - 1>>]
  /\ carts = [u \in Users |-> TRUE]
  /\ orders = << >>
  /\ proc = [p \in Procs |-> IdleProc]
  /\ updates = MaxUpdates
  /\ faults = MaxFaults

SpecLimit == InitLimit /\ [][NextRace]_vars

\* SpecQuantity: one createOrder request after the other, with no thrown
\* call, whose lines carry any integer quantity the route lets through: the
\* validators of POST /api/orders test that items is a non-empty array and
\* nothing about its elements.
SignedLines == [productId : RequestedIds, quantity : (0 - MaxQty)..MaxQty]

NextQuantity ==
  \/ CreateOrder("r1")
  \/ ValidateItemOf("r1", SignedLines, MaxLines)
  \/ PriceOrderOf("r1", RaceCodes)
  \/ SaveOrder("r1")
  \/ ProcessPayment("r1")
  \/ DecrementInventory("r1")
  \/ FindCoupon("r1")
  \/ SaveCoupon("r1")
  \/ DeactivateCart("r1")
  \/ SavePaid("r1")
  \/ SendConfirmation("r1")
  \/ NotifyAdmins("r1")
  \/ TrackAnalytics("r1")
  \/ SaveDeclined("r1")

SpecQuantity == InitRace /\ [][NextQuantity]_vars

\* ------------------------------------------------------------------ claims

AllIdle == \A p \in Procs : proc[p].pc = "idle"

OrderIds == 1..Len(orders)

\* The request in slot p takes a step.
StepOf(p) == proc'[p] # proc[p]

\* The createOrder request in slot p takes a step, its arrival included.
CreateStep(p) ==
  /\ StepOf(p)
  /\ \/ proc[p].op = "create" /\ proc[p].pc # "idle"
     \/ proc[p].pc = "idle" /\ proc'[p].op = "create" /\ proc'[p].pc # "idle"

StoresUntouched ==
  products = InitProducts /\ coupons = InitCoupons /\ \A u \in Users : carts[u]

\* C1: two createOrder requests racing for the tracked product that has
\* exactly one unit left: at most one of them ends as a paid order, and the
\* product's quantity never falls below 0 (it ends at 0).
C1_LastUnitSoldOnce ==
  /\ Cardinality({o \in OrderIds : orders[o].status = "paid"}) <= InitStock
  /\ products["p1"].quantity >= 0

\* C2: in every reachable state every product's inventory quantity is >= 0.
C2_InventoryNonNegative == \A id \in ProductIds : products[id].quantity >= 0

\* C3: once the gateway has reported success, no later step of the request
\* writes anything but paid/paid to the order, and the request is answered
\* 201, whichever side effect throws.
C3_PaidSurvivesSideEffects ==
  [][\A p \in Procs :
       LET l == proc[p] IN
       (l.op = "create" /\ l.pc # "idle" /\ l.paymentResult = "success" /\ StepOf(p))
         => /\ orders' # orders =>
                 /\ orders'[l.oid].status = "paid"
                 /\ orders'[l.oid].paymentStatus = "paid"
            /\ proc'[p].pc = "idle" => proc'[p].res = 201]_vars

\* C4: a createOrder request whose payment the gateway declines changes no
\* product, coupon or cart at any of its steps, and its last step stores the
\* order as cancelled/failed, leaves every other order alone and answers 400.
C4_DeclineChangesNothing ==
  [][\A p \in Procs :
       LET l == proc[p] IN
       /\ (CreateStep(p) /\ l.paymentResult # "success")
            => UNCHANGED <<products, coupons, carts>>
       /\ (StepOf(p) /\ l.op = "create" /\ l.paymentResult = "failure")
            => /\ orders'[l.oid].status = "cancelled"
               /\ orders'[l.oid].paymentStatus = "failed"
               /\ \A o \in OrderIds : o # l.oid => orders'[o] = orders[o]
               /\ proc'[p].pc = "idle" /\ proc'[p].res = 400]_vars

\* C4 witness: a declined request has been answered 400, its order is stored
\* cancelled/failed, and the stores are as they were at the start.
C4_Declined ==
  /\ faults = 0 /\ updates = 0 /\ StoresUntouched
  /\ \E p \in Procs : proc[p].op = "create" /\ proc[p].pc = "idle" /\ proc[p].res = 400
  /\ \E o \in OrderIds : orders[o].status = "cancelled" /\ orders[o].paymentStatus = "failed"

C6_RejectionChangesNothing ==
  [][\A p \in Procs :
       LET l == proc[p]
           n == proc'[p]
       IN
       (StepOf(p) /\ l.op = "create" /\ l.pc \in {"item", "price"})
         => /\ UNCHANGED <<products, coupons, carts, orders>>
            /\ l.oid = 0 /\ l.gatewayCalls = 0
            /\ n.oid = 0 /\ n.gatewayCalls = 0
            /\ n.pc = "idle" => n.res = 400
            /\ (l.pc = "item" /\ n.pc # "idle") =>
                 LET it == n.orderItems[Len(n.orderItems)] IN
                 /\ Len(n.orderItems) = Len(l.orderItems) + 1
                 /\ it.product \in ProductIds
                 /\ products[it.product].isActive
                 /\ products[it.product].trackQuantity
                      => products[it.product].quantity >= it.quantity
            /\ (l.pc = "price" /\ n.pc # "idle" /\ n.couponCode # None) =>
                 /\ n.couponCode \in CouponCodes
                 /\ LET c == coupons[n.couponCode] IN
                    /\ c.isActive
                    /\ c.startDate <= n.now /\ n.now <= c.endDate
                    /\ c.usageLimit # << >> => c.usageCount < c.usageLimit[1]
                    /\ Cardinality({k \in 1..Len(c.usedBy) : c.usedBy[k].user = l.user})
                         < c.userUsageLimit
                    /\ l.subtotal >= c.minimumOrderAmount]_vars

\* C6 witness: a createOrder request has been answered 400 with no order
\* persisted and every store as it was at the start.
C6_Rejected ==
  /\ orders = << >> /\ StoresUntouched
  /\ \E p \in Procs : proc[p].op = "create" /\ proc[p].pc = "idle" /\ proc[p].res = 400

\* The legal-transition table of the order status lifecycle.
LegalMoves ==
  {<<"pending", "paid">>, <<"paid", "processing">>, <<"processing", "shipped">>,
   <<"shipped", "delivered">>}
    \cup ({"pending", "paid", "processing"} \X {"cancelled"})
    \cup ({"pending", "paid", "processing", "shipped"} \X {"refunded"})

\* C7: an administrative status update changes an order's status only along
\* a move of the legal-transition table; any other request leaves the status
\* as it was.
C7_OnlyLegalMoves ==
  [][\A o \in 1..MaxOrders, s \in RequestedStatuses :
       (UpdateOrderStatus(o, s) /\ o <= Len(orders))
         => \/ <<orders[o].status, s>> \in LegalMoves
            \/ orders'[o].status = orders[o].status]_vars

\* The position of a status on pending -> paid -> processing -> shipped ->
\* delivered; 0 for the statuses off that line.
Rank(s) ==
  CASE s = "pending" -> 1 [] s = "paid" -> 2 [] s = "processing" -> 3
    [] s = "shipped" -> 4 [] s = "delivered" -> 5 [] OTHER -> 0

\* C8: an order that is cancelled, delivered or refunded never changes status
\* again, and no order moves backward along pending -> ... -> delivered.
C8_TerminalAndForward ==
  [][\A o \in OrderIds :
       LET a == orders[o].status
           b == orders'[o].status
       IN  /\ a \in {"cancelled", "delivered", "refunded"} => b = a
           /\ (Rank(a) > 0 /\ Rank(b) > 0) => Rank(b) >= Rank(a)]_vars

\* C9: a cancellation request for an order of the requesting user goes on to
\* restore stock only if the order is pending, paid or processing; from any
\* other status it is answered 400 at once, with no order, product, coupon or
\* cart changed and no refund call made.
C9_CancelOnlyWhenCancellable ==
  [][\A p \in Procs, u \in Users, o \in 1..MaxOrders :
       CancelOrderBy(p, u, o)
         => /\ (o <= Len(orders) /\ orders[o].customer = u
                  /\ orders[o].status \notin {"pending", "paid", "processing"})
                 => /\ proc'[p].pc = "idle" /\ proc'[p].res = 400
                    /\ proc'[p].refundCalls = 0
                    /\ UNCHANGED <<products, orders, coupons, carts>>
            /\ proc'[p].pc # "idle"
                 => /\ o <= Len(orders)
                    /\ orders[o].status \in {"pending", "paid", "processing"}]_vars

\* C9 witness: the user's order is shipped, delivered, cancelled or refunded
\* and the cancellation request for it has just been answered 400.
C9_Refused ==
  \E p \in Procs :
    /\ proc[p].op = "cancel" /\ proc[p].pc = "idle" /\ proc[p].res = 400
    /\ \E o \in OrderIds : orders[o].status \in {"shipped", "delivered", "refunded"}
    /\ \A q \in Procs : proc[q].pc = "idle"

\* C10: each turn of cancelOrder's restore loop adds the line's quantity to
\* its product's inventory and takes it off the sold count, touching no other
\* product, and the loop covers every line of the stored order; so that, with
\* requests served one after the other and nothing thrown, once every order
\* is cancelled (each paid one after its payment) every product's inventory
\* and sold count are back at their initial values.
C10_CancelRestoresExactly ==
  /\ [](/\ (faults = 0 /\ updates = 0 /\ AllIdle
              /\ \A o \in OrderIds : orders[o].status = "cancelled")
             => products = InitProducts
           /\ \A p \in Procs :
                (proc[p].op = "cancel" /\ proc[p].pc # "idle")
                  => proc[p].orderItems = orders[proc[p].oid].items)
  /\ [][\A p \in Procs :
          LET l == proc[p] IN
          (StepOf(p) /\ l.op = "cancel" /\ l.pc = "restore")
            => \/ /\ faults' = faults + 1
                  /\ UNCHANGED products
                  /\ proc'[p].pc = "idle" /\ proc'[p].res = 500
               \/ LET it == l.orderItems[l.i] IN
                  /\ faults' = faults
                  /\ products'[it.product].quantity
                       = products[it.product].quantity + it.quantity
                  /\ products'[it.product].soldCount
                       = products[it.product].soldCount - it.quantity
                  /\ products'[it.product].price = products[it.product].price
                  /\ \A id \in ProductIds \ {it.product} : products'[id] = products[id]
                  /\ proc'[p].pc = "restore" <=> l.i < Len(l.orderItems)
                  /\ proc'[p].pc = "restore" => proc'[p].i = l.i + 1]_vars

\* C10 witness: a paid order of two lines, one of them for several units, was
\* cancelled with status 200 and the catalog is back at its initial state.
C10_RoundTrip ==
  /\ faults = 0 /\ updates = 0 /\ products = InitProducts
  /\ proc["r1"].op = "cancel" /\ proc["r1"].pc = "idle" /\ proc["r1"].res = 200
  /\ \E o \in OrderIds :
       /\ orders[o].status = "cancelled"
       /\ orders[o].paymentStatus \in {"paid", "refunded"}
       /\ Len(orders[o].items) = 2
       /\ \E k \in 1..2 : orders[o].items[k].quantity = SeqQty

C12_RestoreOnlyDecremented ==
  /\ [](\A id \in ProductIds :
          /\ products[id].quantity <= InitProducts[id].quantity
          /\ products[id].soldCount >= 0)
  /\ [][\A p \in Procs :
          LET l == proc[p] IN
          (StepOf(p) /\ products' # products)
            => \/ l.op = "create" /\ l.paymentResult = "success"
               \/ l.op = "cancel" /\ l.paymentStatus = "paid"]_vars

\* The usage records of coupon `code` that name user u.
UsesBy(code, u) ==
  {k \in 1..Len(coupons[code].usedBy) : coupons[code].usedBy[k].user = u}

\* C13: for every coupon and every user, the coupon's usage records that
\* name the user never number more than the coupon's per-user usage limit,
\* also when the user's createOrder requests run concurrently.
C13_UserUsageWithinLimit ==
  \A code \in CouponCodes, u \in Users :
    Cardinality(UsesBy(code, u)) <= coupons[code].userUsageLimit

\* Coupon c is active, the time `now` is within its window, its usage count
\* is below its global limit if it has one, and user u's usage records are
\* fewer than its per-user limit.
Usable(c, u, now) ==
  /\ c.isActive
  /\ c.startDate <= now /\ now <= c.endDate
  /\ c.usageLimit # << >> => c.usageCount < c.usageLimit[1]
  /\ Cardinality({k \in 1..Len(c.usedBy) : c.usedBy[k].user = u}) < c.userUsageLimit

\* C14: the coupon step of createOrder lets a request that names a coupon
\* through only if the coupon exists and is usable by the requesting user at
\* the time of the check; if the coupon is unknown or any one of the four
\* conditions fails, the request is answered 400 there and no order is
\* persisted; a usable coupon whose minimum the subtotal meets is applied.
C14_CouponAppliedOnlyIfUsable ==
  [][\A p \in Procs :
       LET l == proc[p]
           n == proc'[p]
           usable == /\ n.couponCode \in CouponCodes
                     /\ Usable(coupons[n.couponCode], l.user, n.now)
       IN
       (StepOf(p) /\ l.op = "create" /\ l.pc = "price" /\ n.couponCode # None)
         => /\ n.pc \in {"save", "idle"}
            /\ n.pc = "save" => usable
            /\ ~usable => n.pc = "idle" /\ n.res = 400 /\ UNCHANGED orders
            /\ (usable /\ l.subtotal >= coupons[n.couponCode].minimumOrderAmount)
                 => n.pc = "save"]_vars

\* C14 witness: a coupon that is active, unused and unlimited was named
\* after its end date, and the request was answered 400 with no order
\* persisted.
C14_ExpiredRejected ==
  /\ orders = << >>
  /\ proc["r1"].op = "create" /\ proc["r1"].pc = "idle" /\ proc["r1"].res = 400
  /\ proc["r1"].couponCode = "SAVE10"
  /\ LET c == coupons["SAVE10"] IN
     /\ c.isActive /\ c.usageLimit = << >> /\ c.usedBy = << >>
     /\ c.startDate <= proc["r1"].now /\ proc["r1"].now > c.endDate

\* C15: no two persisted orders carry the same order number, also when
\* their createOrder requests run within the same clock tick.
C15_OrderNumbersUnique ==
  \A a, b \in OrderIds : a # b => orders[a].orderNumber # orders[b].orderNumber

\* The amounts an order stores: its lines with their unit prices and line
\* totals, and its subtotal, shipping cost, tax, discount and grand total.
Amounts(order) ==
  <<order.items, order.subtotal, order.shippingCost, order.tax,
    order.discount, order.total>>

\* The sum of the line totals of a list of order lines.
RECURSIVE LineSum(_)
LineSum(items) ==
  IF items = << >> THEN 0
  ELSE items[1].totalPrice + LineSum(Tail(items))

\* C16: no step changes the amounts of a persisted order: not a change of a
\* product's catalog price, not cancelOrder, not updateOrderStatus; and the
\* stored line totals stay unit price times quantity, the subtotal their sum,
\* the total subtotal - discount + shipping + tax.
C16_AmountsFixedAtCreation ==
  /\ [](\A o \in OrderIds :
          /\ \A k \in 1..Len(orders[o].items) :
               orders[o].items[k].totalPrice
                 = orders[o].items[k].price * orders[o].items[k].quantity
          /\ orders[o].subtotal = LineSum(orders[o].items)
          /\ orders[o].total = orders[o].subtotal - orders[o].discount
                                 + orders[o].shippingCost + orders[o].tax)
  /\ [][\A o \in OrderIds : Amounts(orders'[o]) = Amounts(orders[o])]_vars

\* C16 witness: the catalog price of a product on an order has changed since
\* the order was placed, the administrator has updated the order's status
\* and the customer has then cancelled the order.
C16_RepricedCatalog ==
  /\ updates = 1
  /\ proc["r1"].op = "cancel" /\ proc["r1"].pc = "idle" /\ proc["r1"].res = 200
  /\ \E o \in OrderIds :
       /\ orders[o].status = "cancelled"
       /\ \E k \in 1..Len(orders[o].items) :
            /\ orders[o].items[k].product = "p1"
            /\ orders[o].items[k].price # products["p1"].price

\* C17: every persisted order has a subtotal, a discount, a shipping cost, a
\* tax and a grand total that are all >= 0, and a discount that is at most
\* its subtotal.
C17_AmountsNonNegative ==
  \A o \in OrderIds :
    /\ orders[o].subtotal >= 0
    /\ orders[o].discount >= 0
    /\ orders[o].shippingCost >= 0
    /\ orders[o].tax >= 0
    /\ orders[o].total >= 0
    /\ orders[o].discount <= orders[o].subtotal

\* C18: every order placed with a coupon of type free_shipping has shipping
\* cost 0 and discount 0, whatever its subtotal and whether or not the
\* request named a shipping method.
C18_FreeShippingCoupon ==
  \A o \in OrderIds :
    (orders[o].couponCode \in CouponCodes
       /\ coupons[orders[o].couponCode].type = "free_shipping")
      => orders[o].shippingCost = 0 /\ orders[o].discount = 0

\* C19: every order placed with a percentage coupon of value v has the
\* discount min(subtotal * v / 100, c) when the coupon has a maximum discount
\* c set, c = 0 included, and the discount subtotal * v / 100 when it has
\* none.
C19_PercentageDiscount ==
  \A o \in OrderIds :
    (orders[o].couponCode \in CouponCodes
       /\ coupons[orders[o].couponCode].type = "percentage")
      => LET c == coupons[orders[o].couponCode]
             d == (orders[o].subtotal * c.value) \div 100
         IN  /\ (orders[o].subtotal * c.value) % 100 = 0
             /\ orders[o].discount =
                  IF c.maximumDiscountAmount = << >> THEN d
                  ELSE IF d < c.maximumDiscountAmount[1] THEN d
                  ELSE c.maximumDiscountAmount[1]

\* C20: every order placed with a fixed coupon of value f has the discount
\* min(f, subtotal), which is the subtotal when the subtotal is below f, so
\* that subtotal - discount is never negative.
C20_FixedDiscount ==
  \A o \in OrderIds :
    (orders[o].couponCode \in CouponCodes
       /\ coupons[orders[o].couponCode].type = "fixed")
      => LET f == coupons[orders[o].couponCode].value IN
         /\ orders[o].subtotal < f => orders[o].discount = orders[o].subtotal
         /\ orders[o].subtotal >= f => orders[o].discount = f
         /\ orders[o].subtotal - orders[o].discount >= 0

\* C20 witness: an order was placed with a fixed coupon worth more than its
\* subtotal, and its discount is its subtotal.
C20_FixedAboveSubtotal ==
  \E o \in OrderIds :
    /\ orders[o].couponCode = "SAVE10"
    /\ coupons["SAVE10"].type = "fixed"
    /\ orders[o].subtotal > 0
    /\ orders[o].subtotal < coupons["SAVE10"].value
    /\ orders[o].discount = orders[o].subtotal

\* C21: in the post-payment sequence of createOrder (inventory decrement
\* per line, coupon usage record, cart deactivation, confirmation email,
\* admin alert, analytics event) a step that fails does not abort the
\* sequence: the request goes on to the steps that follow and, after the
\* last of them, answers 201.
C21_FailedStepDoesNotAbort ==
  [][\A p \in Procs :
       LET l == proc[p] IN
       (StepOf(p) /\ l.op = "create" /\ l.paymentResult = "success"
          /\ l.pc \in {"inventory", "couponFind", "couponSave", "cart",
                       "email", "notify", "analytics"}
          /\ faults' = faults + 1)
         => /\ proc'[p].pc # "catch"
            /\ proc'[p].pc = "idle" => l.pc = "analytics" /\ proc'[p].res = 201]_vars

\* C22: in every reachable state every order whose status is paid,
\* processing, shipped or delivered has the payment status paid, and every
\* order whose payment status is failed has the status cancelled.
C22_PaymentMatchesStatus ==
  \A o \in OrderIds :
    /\ orders[o].status \in {"paid", "processing", "shipped", "delivered"}
         => orders[o].paymentStatus = "paid"
    /\ orders[o].paymentStatus = "failed" => orders[o].status = "cancelled"

\* C23: a createOrder request changes a product, a coupon or a cart only
\* when its order is already stored as paid; so that, wherever the request
\* stops, the stores hold no side effect of an order stored as pending.
C23_SideEffectsAfterPaidStored ==
  [][\A p \in Procs :
       LET l == proc[p] IN
       (StepOf(p) /\ l.op = "create" /\ l.pc # "idle"
          /\ <<products, coupons, carts>>' # <<products, coupons, carts>>)
         => /\ l.oid \in OrderIds
            /\ orders[l.oid].status = "paid"
            /\ orders[l.oid].paymentStatus = "paid"]_vars

\* C24: every line of every persisted order has a quantity of at least 1
\* and a line total that is not negative, and no createOrder request raises
\* a product's inventory quantity above what it was.
C24_QuantitiesPositive ==
  /\ [](\A o \in OrderIds :
          \A k \in 1..Len(orders[o].items) :
            /\ orders[o].items[k].quantity >= 1
            /\ orders[o].items[k].totalPrice >= 0)
  /\ [][\A id \in ProductIds : products'[id].quantity <= products[id].quantity]_vars

\* C25: between requests, each product's soldCount is what it was at first
\* plus the units of that product on the orders now paid, processing,
\* shipped or delivered, and its quantity plus its soldCount is what it was
\* at first.
RECURSIVE UnitsOf(_, _)
UnitsOf(items, id) ==
  IF items = << >> THEN 0
  ELSE (IF items[1].product = id THEN items[1].quantity ELSE 0)
         + UnitsOf(Tail(items), id)

RECURSIVE UnitsSold(_, _)
UnitsSold(o, id) ==
  IF o = 0 THEN 0
  ELSE (IF orders[o].status \in {"paid", "processing", "shipped", "delivered"}
          THEN UnitsOf(orders[o].items, id) ELSE 0)
         + UnitsSold(o - 1, id)

C25_StockConserved ==
  AllIdle =>
    \A id \in ProductIds :
      /\ products[id].soldCount
           = InitProducts[id].soldCount + UnitsSold(Len(orders), id)
      /\ products[id].quantity + products[id].soldCount
           = InitProducts[id].quantity + InitProducts[id].soldCount

\* The cancelOrder request in slot q has put back at least one line of
\* order o, or has answered 200 for it (there is one order id to cancel).
HasRestored(q, o) ==
  LET m == proc[q] IN
  /\ m.op = "cancel"
  /\ \/ m.oid = o /\ (m.pc \in {"refund", "save", "notify"} \/ (m.pc = "restore" /\ m.i > 1))
     \/ m.pc = "idle" /\ m.res = 200 /\ o \in 1..MaxOrders

\* C26: while no administrator changes a status, a cancelOrder request puts
\* stock back for an order only if no other cancelOrder request has put
\* stock back for it, and once every request has answered, an order that a
\* cancelOrder request answered 200 for is stored as cancelled.
C26_RestoredOnce ==
  /\ []((AllIdle /\ updates = 0 /\ \E p \in Procs : proc[p].op = "cancel" /\ proc[p].res = 200)
          => \A o \in OrderIds : orders[o].status = "cancelled")
  /\ [][\A p \in Procs :
          LET l == proc[p] IN
          (StepOf(p) /\ updates = 0 /\ l.op = "cancel" /\ l.pc = "restore"
             /\ products' # products)
            => \A q \in Procs \ {p} : ~HasRestored(q, l.oid)]_vars

\* C27: in every state, each coupon's usageCount is the number of usage
\* records in its usedBy.
C27_CountMatchesRecords ==
  \A code \in DOMAIN coupons :
    coupons[code].usageCount = Len(coupons[code].usedBy)

\* C28: in every state, a coupon whose usageLimit is set has a usageCount
\* of at most that limit.
C28_CountWithinLimit ==
  \A code \in DOMAIN coupons :
    coupons[code].usageLimit # << >>
      => coupons[code].usageCount <= coupons[code].usageLimit[1]

\* The cart of the items of an order, before a coupon is applied to it.
CartOf(order) ==
  calculateTotals([subtotal |-> order.subtotal, couponCode |-> None, discount |-> 0,
                   tax |-> 0, shipping |-> 0, total |-> 0])

\* C29: for every persisted order priced with a percentage or fixed coupon,
\* applying that coupon to a cart of the same items stores the order's
\* discount, the order's tax, the shipping of the order's default policy and
\* the total these add up to.
C29_CartAgreesWithOrder ==
  \A o \in OrderIds :
    LET order == orders[o]
        code  == order.couponCode
    IN  (code \in DOMAIN coupons /\ coupons[code].type \in {"percentage", "fixed"})
          => LET cart     == applyCoupon(CartOf(order), code, coupons[code])
                 shipping == DefaultShipping(order.subtotal, order.discount)
                 tax      == Tax(order.subtotal, order.discount)
             IN  /\ cart.discount = order.discount
                 /\ cart.tax = tax
                 /\ cart.shipping = shipping
                 /\ cart.total = Total(order.subtotal, order.discount, shipping, tax)

\* C30: a cancelOrder request of a user for an order of another customer
\* answers 404 at once: the handler is over, no refund was asked for, and no
\* order, product, coupon or cart has changed.
C30_ForeignCancelChangesNothing ==
  [][\A p \in Procs, u \in Users, o \in OrderIds :
       (CancelOrderBy(p, u, o) /\ orders[o].customer # u)
         => /\ proc'[p].pc = "idle"
            /\ proc'[p].res = 404
            /\ proc'[p].refundCalls = 0
            /\ UNCHANGED <<orders, products, coupons, carts>>]_vars

\* A cancelOrder request was answered 404 although every order id a request
\* can name is that of a stored order, still open to cancellation.
C30_ForeignCancelRefused ==
  /\ Len(orders) = MaxOrders
  /\ \A o \in OrderIds : orders[o].status \in Cancellable
  /\ \E p \in Procs : proc[p].pc = "idle" /\ proc[p].op = "cancel" /\ proc[p].res = 404

=============================================================================
